---------------------------- MODULE Spec2Model ----------------------------
(***************************************************************************)
(* Model of src/express/index.ts: createExpressRouter builds a registry of *)
(* one instance per class, and returns an async handler that dispatches a  *)
(* request body {jsonrpc, method, params} to "Class.method" and writes the *)
(* outcome on the response with status / setHeader / json.                 *)
(*                                                                         *)
(* Strings that the code splits are sequences of one-character strings.    *)
(* JavaScript values are records [t, v, statusCode]; statusCode = 0 stands *)
(* for an absent (or falsy) statusCode property.  The calls on the         *)
(* response (status, setHeader, json) are taken not to throw.              *)
(***************************************************************************)
EXTENDS Integers, Sequences, FiniteSets, TLC

\* ------------------------------------------------------------------ bounds
\* Longest `params` array a request carries.
MaxParams == 2
\* Most segments strictly between the first and the last of a `method` string.
MaxMiddle == 1
\* Requests in flight together in SpecConc.
NumRequests == 2

\* ------------------------------------------------------- JavaScript values
Undefined == [t |-> "undefined", v |-> "", statusCode |-> 0]
Null == [t |-> "null", v |-> "", statusCode |-> 0]
Str(s) == [t |-> "string", v |-> s, statusCode |-> 0]
Obj(label, sc) == [t |-> "object", v |-> label, statusCode |-> sc]

\* x.prop throws a TypeError exactly for undefined and null.
Nullish(x) == x.t \in {"undefined", "null"}

\* Values a registered method may return (or resolve with).
ReturnVals ==
    { Undefined, Null, Str("Hello, World"), Obj("plain", 0), Obj("withStatus", 404) }

\* Object.prototype.toString applied to a class instance.
ObjectToString == Str("[object Object]")

\* Elements of a `params` array.
ParamVals == { Str("World"), Str("x") }

\* ------------------------------------------------------------ char strings
Dot == "."
StrA == <<"A">>
StrB == <<"B">>
StrC == <<"C">>
Strb == <<"b">>
Strc == <<"c">>
Strn == <<"n">>
Strx == <<"x">>
Empty == <<>>
toString == <<"t", "o", "S", "t", "r", "i", "n", "g">>
constructor == <<"c", "o", "n", "s", "t", "r", "u", "c", "t", "o", "r">>

HasDot(s) == \E i \in 1..Len(s) : s[i] = Dot

\* String.prototype.split('.'): the pieces between the dots, empty ones kept.
RECURSIVE split(_)
split(s) ==
    IF ~HasDot(s) THEN << s >>
    ELSE LET i == CHOOSE k \in 1..Len(s) :
                      s[k] = Dot /\ \A j \in 1..(k - 1) : s[j] # Dot
         IN  << SubSeq(s, 1, i - 1) >> \o split(SubSeq(s, i + 1, Len(s)))

\* Array.prototype.pop(): the last element.
popFirstAfterClass(a) == a[2]
pop(a) == a[Len(a)]

\* ------------------------------------------------------------------ classes
\* A class: its name and the members its instances carry themselves.
\*   "method": a function of the class;  "field": a truthy, non-callable value;
\*   "falsy": a property whose value is falsy (0, "", null, ...).
ClassA == [name |-> StrA, members |-> (Strb :> "method" @@ Strn :> "field")]
ClassB == [name |-> StrB, members |-> (Strc :> "method" @@ Strn :> "falsy")]
\* A second class that is also called "A".
ClassA2 == [name |-> StrA, members |-> (Strc :> "method")]

\* What instance[name] evaluates to for an instance of class cls: own members
\* first, then what every object inherits from Object.prototype.
Get(cls, name) ==
    IF name \in DOMAIN cls.members THEN cls.members[name]
    ELSE IF name = toString THEN "inherited"
    ELSE IF name = constructor THEN "ctor"
    ELSE "absent"

\* ----------------------------------------------------------------- requests
\* req.body.method: absent, a string (possibly empty), or a truthy non-string.
MethodUndefined == [t |-> "undefined", s |-> << >>]
MethodString(s) == [t |-> "string", s |-> s]
MethodNumber == [t |-> "number", s |-> << >>]

\* req.body.params: absent, an array, or a truthy value that is not iterable.
ParamsUndefined == [t |-> "undefined", items |-> << >>]
ParamsArray(a) == [t |-> "array", items |-> a]
ParamsNumber == [t |-> "number", items |-> << >>]

JsonRpcAbsent == "absent"

\* req.body. t is "undefined" (no body parser ran), "null", "emptyString" (a falsy
\* primitive), "text" (a truthy primitive) or "object"; a primitive has no fields.
Primitive(t) ==
    [t |-> t, jsonrpc |-> JsonRpcAbsent, method |-> MethodUndefined,
     params |-> ParamsUndefined, id |-> 0]
Body(j, m, p, i) == [t |-> "object", jsonrpc |-> j, method |-> m, params |-> p, id |-> i]

RECURSIVE Join(_)
Join(segs) ==
    IF Len(segs) = 1 THEN segs[1]
    ELSE segs[1] \o << Dot >> \o Join(Tail(segs))

SeqsUpTo(S, k) == UNION { [1..m -> S] : m \in 0..k }

MethodStrings ==
    { Join(<< f >> \o mid \o << l >>) :
        f \in { StrA, StrB, StrC, Empty },
        mid \in SeqsUpTo({ Strc, Strx }, MaxMiddle),
        l \in { Strb, Strc, Strn, Empty, toString, constructor } }
    \cup { StrA, Strb }

MethodFields ==
    { MethodUndefined, MethodNumber, MethodString(Empty) }
    \cup { MethodString(s) : s \in MethodStrings }

ParamsFields ==
    { ParamsUndefined, ParamsNumber }
    \cup { ParamsArray(a) : a \in SeqsUpTo(ParamVals, MaxParams) }

Bodies ==
    { Primitive(t) : t \in { "undefined", "null", "emptyString", "text" } }
    \cup { Body(j, m, p, i) :
             j \in { JsonRpcAbsent, "2.0", "1.0" }, m \in MethodFields,
             p \in ParamsFields, i \in { 0, 7 } }

\* The requests sent while several are in flight.
ConcBodies ==
    { Primitive("undefined"),
      Body(JsonRpcAbsent, MethodString(Join(<< StrA, Strb >>)), ParamsUndefined, 0),
      Body("2.0", MethodString(Join(<< StrA, Strb >>)), ParamsArray(<< Str("World") >>), 0),
      Body("2.0", MethodString(Join(<< StrA, Strc >>)), ParamsUndefined, 0),
      Body("2.0", MethodString(Join(<< StrB, Strc >>)), ParamsUndefined, 0) }

ClassLists == { << ClassA, ClassB >>, << ClassA, ClassA2 >>, << >> }

\* ----------------------------------------------------------------- response
Status(code) == [op |-> "status", code |-> code]
SetHeader(name, value) == [op |-> "setHeader", name |-> name, value |-> value]
Json(body) == [op |-> "json", body |-> body]

Error(fmt, arg) == [error |-> [fmt |-> fmt, arg |-> arg]]
MissingMethod == Error("Request invalid. Missing 'method' property from body.", << >>)
BadFormat ==
    Error("Request invalid. Incorrect 'method' property format. It should be <classname.methodname>.", << >>)
ClassNotFound(className) == Error("Class ${className} not found.", className)
MethodNotFound(method) == Error("Method ${method} not found", method)
InternalServerError == Error("Internal server error", << >>)
Success(response) == [jsonrpc |-> "2.0", result |-> response, id |-> Null]

\* -------------------------------------------------------------------- state
VARIABLES
    classes,    \* the argument of createExpressRouter
    cursor,     \* index of the class that classes.forEach visits next
    created,    \* created[i]: index in classes of the class instance i was built from
    instances,  \* the Map from class name to instance
    req,        \* req[r]: the body of request r
    pc,         \* pc[r]: "idle", "awaiting", "done" (promise fulfilled), "rejected"
    steps,      \* steps[r]: the checks of the handler evaluated so far, in order
    log,        \* log[r]: the calls made on the response of r, in order
    lookup,     \* lookup[r]: the handler's locals className and method
    call,       \* call[r]: the invocation instance[method](...args) made for r
    settled     \* settled[r]: how that invocation ended

vars == << classes, cursor, created, instances, req, pc, steps, log, lookup, call, settled >>

NoCall == [instance |-> 0, name |-> << >>, args |-> << >>, kind |-> "none"]
NoLookup == [className |-> << >>, method |-> << >>]
NotSettled == [kind |-> "none", value |-> Undefined]

\* ------------------------------------------------------- createExpressRouter
\* Map.prototype.set
setKeepFirst(m, k, v) ==
    [kk \in DOMAIN m \cup { k } |-> IF kk \in DOMAIN m THEN m[kk] ELSE v]
set(m, k, v) ==
    [kk \in DOMAIN m \cup { k } |-> IF kk = k THEN v ELSE m[kk]]

\* One iteration of classes.forEach: new c(), then instances.set(c.name, instance).
Construct ==
    /\ cursor <= Len(classes)
    /\ created' = Append(created, cursor)
    /\ instances' = set(instances, classes[cursor].name, Len(created) + 1)
    /\ cursor' = cursor + 1
    /\ UNCHANGED << classes, req, pc, steps, log, lookup, call, settled >>

\* The handler exists once forEach has returned.
Returned == cursor > Len(classes)

\* ------------------------------------------------------------------ handler
Truthy(body) == body.t \in { "text", "object" }

\* !req.body || (req.body && req.body["jsonrpc"] === "2.0")
EligibleUnlessOtherVersion(body) == ~Truthy(body) \/ body.jsonrpc # "1.0"
Eligible(body) == ~Truthy(body) \/ (Truthy(body) /\ body.jsonrpc = "2.0")

\* !req.body.method
MethodMissing(m) == m.t = "undefined" \/ (m.t = "string" /\ m.s = << >>)

\* req.body.params || []
Args(params) == IF params.t = "undefined" THEN << >> ELSE params.items

Finished(st, l, lk) ==
    [pc |-> "done", steps |-> st, log |-> l, lookup |-> lk, call |-> NoCall,
     settled |-> NotSettled]

\* A TypeError outside the try block: the handler's promise rejects.
Escaped(st) ==
    [pc |-> "rejected", steps |-> st, log |-> << >>, lookup |-> NoLookup,
     call |-> NoCall, settled |-> NotSettled]

\* catch (error) { res.status(500).json(...) }
Catch == << Status(500), Json(InternalServerError) >>

\* instance[method](...args) has been called and the handler waits for it.
InvokeAfterStatus(st, lk, cl) ==
    [pc |-> "awaiting", steps |-> st, log |-> << Status(200) >>, lookup |-> lk,
     call |-> cl, settled |-> NotSettled]
Invoke(st, lk, cl) ==
    [pc |-> "awaiting", steps |-> st, log |-> << >>, lookup |-> lk, call |-> cl,
     settled |-> NotSettled]

\* The try block up to the await. member is what instance[method] evaluated to.
Try(st, lk, instance, member, params, syncThrow) ==
    LET cl == [instance |-> instance, name |-> lk.method, args |-> Args(params),
               kind |-> member]
    IN  IF params.t = "number"
        THEN \* spreading a non-iterable throws before the call
             Finished(st, Catch, lk)
        ELSE IF member \in { "field", "ctor" }
        THEN \* not a function, or a class constructor called without new
             Finished(st, Catch, lk)
        ELSE IF member = "method" /\ syncThrow
        THEN [pc |-> "done", steps |-> st, log |-> Catch, lookup |-> lk, call |-> cl,
              settled |-> [kind |-> "throw", value |-> Undefined]]
        ELSE Invoke(st, lk, cl)

\* The handler from its start to its end or to the await. reg is the Map,
\* classOf[i] the class of instance i.
Handler(body, reg, classOf, syncThrow) ==
    IF ~Eligible(body)
    THEN Finished(<< "eligible" >>, << >>, NoLookup)
    ELSE IF Nullish(body)
    THEN Escaped(<< "eligible", "method?" >>)
    ELSE IF MethodMissing(body.method)
    THEN Finished(<< "eligible", "method?" >>,
                  << Status(400), Json(MissingMethod) >>, NoLookup)
    ELSE IF body.method.t # "string"
    THEN Escaped(<< "eligible", "method?", "split" >>)
    ELSE
    LET methodComponents == split(body.method.s) IN
    IF Len(methodComponents) < 2
    THEN Finished(<< "eligible", "method?", "split", "format?" >>,
                  << Status(400), Json(BadFormat) >>, NoLookup)
    ELSE
    LET className == methodComponents[1]
        method == pop(methodComponents)
        lk == [className |-> className, method |-> method]
    IN
    IF className \notin DOMAIN reg
    THEN Finished(<< "eligible", "method?", "split", "format?", "class?" >>,
                  << Status(404), Json(ClassNotFound(className)) >>, lk)
    ELSE
    LET instance == reg[className]
        member == Get(classOf[instance], method)
    IN
    IF member \in { "absent", "falsy" }
    THEN Finished(<< "eligible", "method?", "split", "format?", "class?", "member?" >>,
                  << Status(404), Json(MethodNotFound(method)) >>, lk)
    ELSE Try(<< "eligible", "method?", "split", "format?", "class?", "member?", "try" >>,
             lk, instance, member, body.params, syncThrow)

\* The handler after the await: response shaping, or the catch block.
AfterAwait(outcome) ==
    IF outcome.kind = "reject" THEN Catch
    ELSE LET response == outcome.value IN
         IF Nullish(response)
         THEN \* response.statusCode throws
              Catch
         ELSE << Status(IF response.statusCode = 0 THEN 200 ELSE response.statusCode),
                 SetHeader("Content-Type", "application/json"),
                 Status(200),
                 Json(Success(response)) >>

\* How an invocation of the given kind can end once it has been suspended.
Outcomes(kind) ==
    IF kind = "inherited"
    THEN { [kind |-> "return", value |-> ObjectToString] }
    ELSE { [kind |-> "return", value |-> v] : v \in ReturnVals }
         \cup { [kind |-> "reject", value |-> Undefined] }

\* ------------------------------------------------------------------ actions
Requests == DOMAIN req

\* Express calls the handler for request r; it runs to its end or to the await.
Handle(r) ==
    /\ Returned
    /\ pc[r] = "idle"
    /\ \E syncThrow \in BOOLEAN :
         LET classOf == [i \in 1..Len(created) |-> classes[created[i]]]
             h == Handler(req[r], instances, classOf, syncThrow)
         IN  /\ pc' = [pc EXCEPT ![r] = h.pc]
             /\ steps' = [steps EXCEPT ![r] = h.steps]
             /\ log' = [log EXCEPT ![r] = h.log]
             /\ lookup' = [lookup EXCEPT ![r] = h.lookup]
             /\ call' = [call EXCEPT ![r] = h.call]
             /\ settled' = [settled EXCEPT ![r] = h.settled]
    /\ UNCHANGED << classes, cursor, created, instances, req >>

\* The awaited invocation of r settles and the handler runs to its end.
Settle(r) ==
    /\ pc[r] = "awaiting"
    /\ \E outcome \in Outcomes(call[r].kind) :
         /\ settled' = [settled EXCEPT ![r] = outcome]
         /\ log' = [log EXCEPT ![r] = log[r] \o AfterAwait(outcome)]
    /\ pc' = [pc EXCEPT ![r] = "done"]
    /\ UNCHANGED << classes, cursor, created, instances, req, steps, lookup, call >>

Next ==
    \/ Construct
    \/ \E r \in Requests : Handle(r)
    \/ \E r \in Requests : Settle(r)

InitRouter ==
    /\ classes \in ClassLists
    /\ cursor = 1
    /\ created = << >>
    /\ instances = << >>

InitRequests(ids, bodies) ==
    /\ req \in [ids -> bodies]
    /\ pc = [r \in ids |-> "idle"]
    /\ steps = [r \in ids |-> << >>]
    /\ log = [r \in ids |-> << >>]
    /\ lookup = [r \in ids |-> NoLookup]
    /\ call = [r \in ids |-> NoCall]
    /\ settled = [r \in ids |-> NotSettled]

\* One request, every body.
Init == InitRouter /\ InitRequests({ 1 }, Bodies)
Spec == Init /\ [][Next]_vars

\* Several requests in flight together.
InitConc == InitRouter /\ InitRequests(1..NumRequests, ConcBodies)
SpecConc == InitConc /\ [][Next]_vars

\* ------------------------------------------------- vocabulary of the claims
Ended(r) == pc[r] \in { "done", "rejected" }

\* The class of the instance registered under a name.
RegisteredClass(name) == classes[created[instances[name]]]

\* The positions of the json calls in a log.
JsonAt(l) == { j \in 1..Len(l) : l[j].op = "json" }
\* The status in effect when the call at position j is made (Express starts at 200).
StatusAt(l, j) ==
    LET before == { k \in 1..(j - 1) : l[k].op = "status" }
    IN  IF before = { } THEN 200
        ELSE l[CHOOSE k \in before : \A m \in before : m <= k].code
\* The response is exactly: status code, then body, with nothing after the body.
Answered(l, code, body) ==
    /\ JsonAt(l) = { Len(l) }
    /\ l[Len(l)].body = body
    /\ StatusAt(l, Len(l)) = code

\* The text before the first dot and the text after the last dot.
FirstDot(s) == CHOOSE k \in 1..Len(s) : s[k] = Dot /\ \A j \in 1..(k - 1) : s[j] # Dot
LastDot(s) == CHOOSE k \in 1..Len(s) : s[k] = Dot /\ \A j \in (k + 1)..Len(s) : s[j] # Dot
FirstSegment(s) == SubSeq(s, 1, FirstDot(s) - 1)
LastSegment(s) == SubSeq(s, LastDot(s) + 1, Len(s))
Dots(s) == Cardinality({ k \in 1..Len(s) : s[k] = Dot })

\* !body || (body && body.jsonrpc === "2.0"), as the specification words it.
Falsy(body) == body.t \in { "undefined", "null", "emptyString" }
EligibleAsSpecified(body) == Falsy(body) \/ (~Falsy(body) /\ body.jsonrpc = "2.0")

\* A request {method: "A.b", params: [...]} for a method b of a registered class A.
ValidRequest(r) ==
    /\ req[r].t = "object"
    /\ req[r].method.t = "string"
    /\ Dots(req[r].method.s) = 1
    /\ req[r].params.t \in { "undefined", "array" }
    /\ FirstSegment(req[r].method.s) \in DOMAIN instances
    /\ LET cls == RegisteredClass(FirstSegment(req[r].method.s))
           m == LastSegment(req[r].method.s)
       IN  m \in DOMAIN cls.members /\ cls.members[m] = "method"

\* ----------------------------------------------------------------------- C1
\* C1 (as claimed): every valid request {method: "A.b", params} for a registered
\* class A and a method b of it, whatever its other fields, is answered 200 with
\* {jsonrpc: "2.0", result: <what b(...params) returned>, id: null}, for every
\* value b returns, null and undefined included.
C1_ValidRequestGetsResult ==
    \A r \in Requests :
        (Ended(r) /\ ValidRequest(r) /\ settled[r].kind \notin { "throw", "reject" })
        => /\ pc[r] = "done"
           /\ settled[r].kind = "return"
           /\ call[r].args = Args(req[r].params)
           /\ Answered(log[r], 200, Success(settled[r].value))

\* ----------------------------------------------------------------------- C2
\* C2 (as claimed): every request without a `method` field -- no body, a body
\* without jsonrpc, or a body with jsonrpc "2.0" -- is answered 400 with the
\* missing-method message, and nothing is invoked.
C2_MissingMethodAlways400 ==
    \A r \in Requests :
        (Ended(r) /\ req[r].method.t = "undefined")
        => /\ pc[r] = "done"
           /\ Answered(log[r], 400, MissingMethod)
           /\ call[r] = NoCall

\* ----------------------------------------------------------------------- C3
\* C3 (as claimed): an invocation that throws or rejects is answered 500 with
\* {error: "Internal server error"}, and for every request the handler's promise
\* never rejects.
C3_NoExceptionEscapes ==
    \A r \in Requests :
        /\ settled[r].kind \in { "throw", "reject" }
             => (pc[r] = "done" /\ Answered(log[r], 500, InternalServerError))
        /\ pc[r] # "rejected"

\* ----------------------------------------------------------------------- C4
\* C4 (as claimed): a processed request naming a registered class and a method
\* name the class does not define (inherited names such as constructor and
\* toString, and the empty name, included) is answered 404 "Method <name> not
\* found" and nothing is invoked on the instance.
C4_UndefinedMethodIs404 ==
    \A r \in Requests :
        ( /\ pc[r] # "idle"
          /\ EligibleAsSpecified(req[r])
          /\ req[r].method.t = "string"
          /\ Dots(req[r].method.s) >= 1
          /\ FirstSegment(req[r].method.s) \in DOMAIN instances
          /\ LastSegment(req[r].method.s)
               \notin DOMAIN RegisteredClass(FirstSegment(req[r].method.s)).members )
        => /\ pc[r] = "done"
           /\ Answered(log[r], 404, MethodNotFound(LastSegment(req[r].method.s)))
           /\ call[r] = NoCall

\* ----------------------------------------------------------------------- C5
\* C5: a request enters the validation pipeline exactly when
\* !body || (body && body.jsonrpc === "2.0"); a request that is not eligible makes
\* no status, setHeader or json call, invokes nothing, and its handler completes
\* without error.
C5_Eligibility ==
    \A r \in Requests :
        pc[r] # "idle"
        => /\ (Len(steps[r]) >= 2 /\ steps[r][2] = "method?") <=> EligibleAsSpecified(req[r])
           /\ ~EligibleAsSpecified(req[r])
                => /\ pc[r] = "done"
                   /\ log[r] = << >>
                   /\ call[r] = NoCall
                   /\ settled[r] = NotSettled

\* A request with a body but no jsonrpc field, otherwise valid, has been handled.
C5_Witness ==
    \E r \in Requests :
        /\ pc[r] = "done"
        /\ ValidRequest(r)
        /\ req[r].jsonrpc = JsonRpcAbsent
        /\ log[r] = << >>

\* ----------------------------------------------------------------------- C6
\* C6: for a processed request whose method string holds two or more dots, the
\* class looked up is the text before the first dot and the method looked up and
\* invoked is the text after the last dot; what lies between decides neither the
\* class, nor the method, nor the error message.
C6_FirstAndLastSegment ==
    \A r \in Requests :
        ( /\ pc[r] # "idle"
          /\ EligibleAsSpecified(req[r])
          /\ req[r].method.t = "string"
          /\ Dots(req[r].method.s) >= 2 )
        => LET first == FirstSegment(req[r].method.s)
               last == LastSegment(req[r].method.s)
           IN  /\ lookup[r] = [className |-> first, method |-> last]
               /\ first \notin DOMAIN instances
                    => Answered(log[r], 404, ClassNotFound(first))
               /\ first \in DOMAIN instances
                    => LET own == RegisteredClass(first).members IN
                       /\ (last \notin DOMAIN own /\ last \notin { toString, constructor })
                            => Answered(log[r], 404, MethodNotFound(last))
                       /\ (last \in DOMAIN own /\ own[last] = "method"
                           /\ req[r].params.t # "number")
                            => /\ call[r].name = last
                               /\ call[r].instance = instances[first]
                               /\ call[r].kind = "method"

\* "A.x.b" has been dispatched to b of the instance registered as A, and answered.
C6_Witness ==
    \E r \in Requests :
        /\ req[r].method = MethodString(Join(<< StrA, Strx, Strb >>))
        /\ pc[r] = "done"
        /\ call[r].name = Strb
        /\ settled[r].kind = "return"
        /\ Answered(log[r], 200, Success(settled[r].value))

\* ----------------------------------------------------------------------- C7
\* C7 (as claimed): whenever the invoked method returns normally, the status in
\* effect when the body is sent is 200 whatever statusCode the value carries,
\* Content-Type: application/json is set before the body, and the body is
\* {jsonrpc: "2.0", result: <returned value>, id: null}.
C7_ReturnIsAlways200 ==
    \A r \in Requests :
        (pc[r] = "done" /\ settled[r].kind = "return")
        => /\ Answered(log[r], 200, Success(settled[r].value))
           /\ \E h \in 1..(Len(log[r]) - 1) :
                  log[r][h] = SetHeader("Content-Type", "application/json")

\* ----------------------------------------------------------------------- C8
ValidationOrder == << "eligible", "method?", "split", "format?", "class?", "member?", "try" >>

\* C8 (as claimed): every request that passes the eligibility check ends in
\* exactly one of six outcomes (400 missing method, 400 bad format, 404 class not
\* found, 404 method not found, 500, 200), with one JSON body and nothing written
\* after it; the checks run in that order; the target method is invoked only on
\* the 200 and 500 outcomes.
C8_SixOutcomes ==
    \A r \in Requests :
        (Ended(r) /\ EligibleAsSpecified(req[r]))
        => /\ pc[r] = "done"
           /\ steps[r] = SubSeq(ValidationOrder, 1, Len(steps[r]))
           /\ \/ Answered(log[r], 400, MissingMethod) /\ Len(steps[r]) = 2
              \/ Answered(log[r], 400, BadFormat) /\ Len(steps[r]) = 4
              \/ Answered(log[r], 404, ClassNotFound(lookup[r].className)) /\ Len(steps[r]) = 5
              \/ Answered(log[r], 404, MethodNotFound(lookup[r].method)) /\ Len(steps[r]) = 6
              \/ Answered(log[r], 500, InternalServerError) /\ Len(steps[r]) = 7
              \/ Answered(log[r], 200, Success(settled[r].value)) /\ Len(steps[r]) = 7
           /\ call[r] # NoCall => StatusAt(log[r], Len(log[r])) \in { 200, 500 }

RegistryBuilt ==
    /\ created = [i \in 1..Len(classes) |-> i]
    /\ DOMAIN instances = { classes[i].name : i \in 1..Len(classes) }
    /\ \A i \in 1..Len(classes) :
           instances[classes[i].name] >= i
           /\ classes[instances[classes[i].name]].name = classes[i].name

\* C10: createExpressRouter builds exactly one instance per element of classes
\* and registers it under the class's name, a later duplicate replacing an
\* earlier one; once the handler exists no step of any request adds, removes or
\* replaces a registry entry or builds an instance, and every invocation is made
\* on the instance the registry holds for the class name.
C10_RegistryReadOnly ==
    /\ [](Returned => RegistryBuilt)
    /\ [](\A r \in Requests :
              call[r] # NoCall => call[r].instance = instances[lookup[r].className])
    /\ [][Returned => (instances' = instances /\ created' = created /\ classes' = classes)]_vars

\* Two classes called "A" were registered, and every request has been handled,
\* one of them by invoking the instance of the second class.
C10_Witness ==
    /\ Returned
    /\ classes = << ClassA, ClassA2 >>
    /\ instances = (StrA :> 2)
    /\ \A r \in Requests : pc[r] = "done"
    /\ \E r \in Requests : call[r].instance = 2 /\ settled[r].kind = "return"

=============================================================================
